---------------------------- MODULE Spec2Model ----------------------------
(***************************************************************************)
(* A model of the Color value type of tincture (src/color/mod.rs).         *)
(*                                                                         *)
(* The state is one receiver Color (`self`) together with the record of    *)
(* the last method call made on it: the method's name (`op`), the inputs   *)
(* of the call (`args`) and what it returned (`res`).  Every method of     *)
(* the type that the checked properties talk about is one action; the      *)
(* computation of each method is an operator of the same name, written     *)
(* from the Rust code line by line.                                        *)
(*                                                                         *)
(* Integer arithmetic keeps the width of the Rust type it is done in: an   *)
(* intermediate value outside that type is reported in the `ovf` field of  *)
(* the result (a panic of a debug build) and its value wraps (a release    *)
(* build).                                                                 *)
(***************************************************************************)
EXTENDS Integers, Sequences, FiniteSets, TLC

VARIABLES self, op, args, res

vars == <<self, op, args, res>>

(***************************************************************************)
(* Widths of the Rust integer types used by the code.                      *)
(***************************************************************************)
U8Max == 255
U16Max == 65535
I16Min == -32768
I16Max == 32767

(***************************************************************************)
(* Bounds of the model.                                                    *)
(***************************************************************************)
\* Longest digit string (after the optional '#') handed to from_hex.
MaxHexLen == 8
\* Number of mid-range channel values (10, 20, ...) of the receivers.
NumMid == 1
\* Largest |places| handed to shift.
MaxPlaces == 9
\* Largest bound value handed to randomise.
MaxBound == 2
\* Largest tolerance handed to approx_equal.
MaxDiff == 1
\* Largest root base handed to base_sqrt.
MaxBase == 3
\* Largest integer access code handed to __getitem__ and __setitem__.
MaxCode == 5

(***************************************************************************)
(* Generic helpers.                                                        *)
(***************************************************************************)
Min2(x, y) == IF x <= y THEN x ELSE y
Max2(x, y) == IF x >= y THEN x ELSE y
Clamp(x, lo, hi) == Max2(lo, Min2(x, hi))

\* `x as u8` of an integer: truncation to the low 8 bits.
AsU8(x) == x % (U8Max + 1)
\* A u16 value after wrapping, and whether the exact value left u16.
WrapU16(x) == x % (U16Max + 1)
InU16(x) == 0 <= x /\ x <= U16Max
InI16(x) == I16Min <= x /\ x <= I16Max

\* struct Color { r, g, b, a : u8 }
Color(r, g, b, a) == [r |-> r, g |-> g, b |-> b, a |-> a]
Colors(S) == [r : S, g : S, b : S, a : S]

\* PyResult: Ok(value) or Err(kind of error)
Ok(v) == [ok |-> TRUE, val |-> v]
Err(e) == [ok |-> FALSE, err |-> e]

NoArgs == [none |-> TRUE]

(***************************************************************************)
(* Hexadecimal strings.  A string is the sequence of its characters.       *)
(***************************************************************************)
HexDigits == <<"0", "1", "2", "3", "4", "5", "6", "7",
               "8", "9", "a", "b", "c", "d", "e", "f">>

ToLower(ch) ==
    CASE ch = "A" -> "a" [] ch = "B" -> "b" [] ch = "C" -> "c"
      [] ch = "D" -> "d" [] ch = "E" -> "e" [] ch = "F" -> "f"
      [] OTHER -> ch

IsHexDigit(ch) == \E i \in 1..16 : HexDigits[i] = ToLower(ch)
HexVal(ch) == (CHOOSE i \in 1..16 : HexDigits[i] = ToLower(ch)) - 1

\* utils::interpret_to_hex(&str, range): the two characters at [from, to) read
\* as one base-16 u8.
interpret_to_hex(str, from, to) ==
    LET part == SubSeq(str, from + 1, to)
    IN  IF Len(part) = 2 /\ IsHexDigit(part[1]) /\ IsHexDigit(part[2])
        THEN Ok(16 * HexVal(part[1]) + HexVal(part[2]))
        ELSE Err("ParseIntError")

\* Color::from_hex
from_hex(hex_string) ==
    LET adjusted_str ==
            IF Len(hex_string) > 0 /\ hex_string[1] = "#"
            THEN Tail(hex_string)
            ELSE hex_string
    IN  IF Len(adjusted_str) # 6 \/ Len(adjusted_str) # 8
        THEN Err("InvalidLength")
        ELSE LET r == interpret_to_hex(adjusted_str, 0, 2)
                 g == interpret_to_hex(adjusted_str, 2, 4)
                 b == interpret_to_hex(adjusted_str, 4, 6)
                 a == IF Len(adjusted_str) = 8
                      THEN interpret_to_hex(adjusted_str, 4, 6)
                      ELSE Ok(255)
             IN  CASE r.ok /\ g.ok /\ b.ok /\ a.ok ->
                          Ok(Color(r.val, g.val, b.val, a.val))
                   [] ~r.ok -> Err("InvalidHexDigitsFirst")
                   [] r.ok /\ ~g.ok -> Err("InvalidHexDigitsSecond")
                   [] r.ok /\ g.ok /\ ~b.ok -> Err("InvalidHexDigitsThird")
                   [] OTHER -> Err("InvalidHexDigitsFourth")

\* format!("{:x?}", v) of a u8: lower-case hexadecimal, no padding.
FmtLowerHex(v) ==
    IF v < 16 THEN <<HexDigits[v + 1]>>
    ELSE <<HexDigits[(v \div 16) + 1], HexDigits[(v % 16) + 1]>>

\* Color::to_hex
to_hex(c, include_transparency) ==
    LET hex_str == <<"#">> \o FmtLowerHex(c.r) \o FmtLowerHex(c.g)
                           \o FmtLowerHex(c.b)
    IN  IF include_transparency THEN hex_str \o FmtLowerHex(c.a) ELSE hex_str

(***************************************************************************)
(* Channel rotation.                                                       *)
(***************************************************************************)
\* BigInt's `%`: the remainder of the truncated division, with the sign of
\* the dividend.
BigIntRem(x, y) == IF x >= 0 THEN x % y ELSE -((-x) % y)

\* utils::wrap_around_bigint(BigInt): the sign of the number and its
\* magnitude as one machine word (every magnitude of the model fits in one).
wrap_around_bigint(x) ==
    <<IF x < 0 THEN "Minus" ELSE IF x = 0 THEN "NoSign" ELSE "Plus",
      IF x < 0 THEN -x ELSE x>>

\* The loop of Color::shift from iteration `index` on:
\*   arr[calc_index] = arr_clone[index]   (arrays are 0-based in the code)
RECURSIVE shift_loop(_, _, _, _)
shift_loop(arr, arr_clone, adjusted_places, index) ==
    IF index = 4 THEN arr
    ELSE LET calc_index ==
                 wrap_around_bigint(BigIntRem(adjusted_places + index, 4))[2]
         IN  shift_loop([arr EXCEPT ![calc_index + 1] = arr_clone[index + 1]],
                        arr_clone, adjusted_places, index + 1)

\* Color::shift
shift(c, places) ==
    IF BigIntRem(places, 4) = 0 THEN c
    ELSE LET arr_clone == <<c.r, c.g, c.b, c.a>>
             rem == BigIntRem(places, 4)
             adjusted_places == IF rem < 0 THEN 4 - rem ELSE rem
             arr == shift_loop(arr_clone, arr_clone, adjusted_places, 0)
         IN  Color(arr[1], arr[2], arr[3], arr[4])

\* Color::__rshift__ and Color::__lshift__
__rshift__(c, places) == shift(c, places)
__lshift__(c, places) == shift(c, -places)

(***************************************************************************)
(* Colour algebra.  An operation on integers yields the Color and whether  *)
(* some intermediate value left the integer type it is computed in.        *)
(***************************************************************************)
Arith(c, ovf) == [val |-> c, ovf |-> ovf]

\* What the caller gets: the value; on an overflow a debug build panics and a
\* release build returns the wrapped value.
Panic == [ok |-> FALSE, err |-> "panic"]
Returned(x) == IF x.ovf THEN {Panic, Ok(x.val)} ELSE {Ok(x.val)}

\* ((x as u16) + (y as u16)).min(255) as u8
add_channel(x, y) ==
    LET sum == x + y
    IN  [v |-> AsU8(Min2(WrapU16(sum), 255)), ovf |-> ~InU16(sum)]

\* Color::add
add(c, other, include_transparency) ==
    LET r == add_channel(c.r, other.r)
        g == add_channel(c.g, other.g)
        b == add_channel(c.b, other.b)
        a == IF include_transparency THEN add_channel(c.a, other.a)
             ELSE [v |-> c.a, ovf |-> FALSE]
    IN  Arith(Color(r.v, g.v, b.v, a.v), r.ovf \/ g.ovf \/ b.ovf \/ a.ovf)

\* ((x as i16) - (y as i16)).max(0) as u8
sub_channel(x, y) ==
    LET diff == x - y
    IN  [v |-> AsU8(Max2(diff, 0)), ovf |-> ~InI16(diff)]

\* Color::sub
sub(c, other, include_transparency) ==
    LET r == sub_channel(c.r, other.r)
        g == sub_channel(c.g, other.g)
        b == sub_channel(c.b, other.b)
        a == IF include_transparency THEN sub_channel(c.a, other.a)
             ELSE [v |-> c.a, ovf |-> FALSE]
    IN  Arith(Color(r.v, g.v, b.v, a.v), r.ovf \/ g.ovf \/ b.ovf \/ a.ovf)

\* tensor_channel with the product taken in u8, the widening left out.
tensor_channel_unwidened(x, y) ==
    LET prod == x * y
    IN  [v |-> AsU8(Clamp(AsU8(prod), 0, 255)), ovf |-> prod > U8Max]

\* ((x as u16) * (y as u16)).clamp(0, 255) as u8
tensor_channel(x, y) ==
    LET prod == x * y
    IN  [v |-> AsU8(Clamp(WrapU16(prod), 0, 255)), ovf |-> ~InU16(prod)]

\* Color::tensor
tensor(c, other, include_transparency) ==
    LET r == tensor_channel(c.r, other.r)
        g == tensor_channel(c.g, other.g)
        b == tensor_channel(c.b, other.b)
        a == IF include_transparency THEN tensor_channel(c.a, other.a)
             ELSE [v |-> c.a, ovf |-> FALSE]
    IN  Arith(Color(r.v, g.v, b.v, a.v), r.ovf \/ g.ovf \/ b.ovf \/ a.ovf)

\* An f32 scalar: the finite value n/d (d a power of two and n small, so that
\* the value and its products with a channel are exact in f32), NaN or
\* +infinity.
Fin(n, d) == [kind |-> "fin", n |-> n, d |-> d]
NaN == [kind |-> "nan"]
PosInf == [kind |-> "inf"]

\* ((x as f32) * scalar).clamp(0.0, 255.0).floor() as u8, for scalar > 0 or NaN
mul_channel(x, scalar) ==
    CASE scalar.kind = "nan" -> 0
      [] scalar.kind = "inf" -> IF x = 0 THEN 0 ELSE 255
      [] OTHER -> Clamp((x * scalar.n) \div scalar.d, 0, 255)

\* mul with the early return for scalar <= 0 clearing alpha as well.
mul_clearing_alpha(c, scalar, include_transparency) ==
    IF scalar.kind = "fin" /\ scalar.n <= 0
    THEN Color(0, 0, 0, 0)
    ELSE Color(mul_channel(c.r, scalar), mul_channel(c.g, scalar),
               mul_channel(c.b, scalar),
               IF include_transparency THEN mul_channel(c.a, scalar) ELSE c.a)

\* Color::mul
mul(c, scalar, include_transparency) ==
    IF scalar.kind = "fin" /\ scalar.n <= 0
    THEN Color(0, 0, 0, IF include_transparency THEN 0 ELSE c.a)
    ELSE Color(mul_channel(c.r, scalar), mul_channel(c.g, scalar),
               mul_channel(c.b, scalar),
               IF include_transparency THEN mul_channel(c.a, scalar) ELSE c.a)

\* ((x as f32) / scalar).clamp(0.0, 255.0).floor() as u8, for scalar # 0
div_channel(x, scalar) ==
    CASE scalar.kind = "nan" -> 0
      [] scalar.kind = "inf" -> 0
      [] scalar.n < 0 -> 0
      [] OTHER -> Clamp((x * scalar.d) \div scalar.n, 0, 255)

\* Color::div
div(c, scalar, include_transparency) ==
    IF scalar.kind = "fin" /\ scalar.n = 0
    THEN Err("DivideByZero")
    ELSE Ok(Color(div_channel(c.r, scalar), div_channel(c.g, scalar),
                  div_channel(c.b, scalar),
                  IF include_transparency THEN div_channel(c.a, scalar)
                  ELSE c.a))

\* (x as f32).powf(1.0 / base).clamp(0.0, 255.0).floor() as u8, for base > 1:
\* the integer part k of the root.  Where x is an exact power k^base the
\* rounding of powf decides between k - 1 and k; both are kept.
base_sqrt_channel(x, base) ==
    LET k == CHOOSE n \in 0..15 : n ^ base <= x /\ x < (n + 1) ^ base
    IN  IF k >= 2 /\ k ^ base = x THEN {k - 1, k} ELSE {k}

\* Color::base_sqrt: the results it can return
base_sqrt(c, base, include_transparency) ==
    IF base <= 1
    THEN {Err("InvalidArgument")}
    ELSE {Ok(Color(r, g, b, a)) :
              r \in base_sqrt_channel(c.r, base),
              g \in base_sqrt_channel(c.g, base),
              b \in base_sqrt_channel(c.b, base),
              a \in IF include_transparency
                    THEN base_sqrt_channel(c.a, base) ELSE {c.a}}

\* Color::max
max(c, other, include_transparency) ==
    Color(Max2(c.r, other.r), Max2(c.g, other.g), Max2(c.b, other.b),
          IF include_transparency THEN Max2(c.a, other.a) ELSE c.a)

\* Color::min
min(c, other, include_transparency) ==
    Color(Min2(c.r, other.r), Min2(c.g, other.g), Min2(c.b, other.b),
          IF include_transparency THEN Min2(c.a, other.a) ELSE c.a)

\* inverse inverting alpha whatever the flag says.
inverse_with_alpha(c, include_transparency) ==
    Color(255 - c.r, 255 - c.g, 255 - c.b, 255 - c.a)

\* Color::inverse
inverse(c, include_transparency) ==
    Color(255 - c.r, 255 - c.g, 255 - c.b,
          IF include_transparency THEN 255 - c.a ELSE c.a)

(***************************************************************************)
(* Comparison.                                                             *)
(***************************************************************************)
\* __eq__ comparing red, green and blue only.
eq_without_alpha(c, other) ==
    c.r = other.r /\ c.b = other.b /\ c.g = other.g

\* Color::__eq__
__eq__(c, other) ==
    c.r = other.r /\ c.b = other.b /\ c.g = other.g /\ c.a = other.a

\* Color::__ne__
__ne__(c, other) ==
    c.r # other.r \/ c.b # other.b \/ c.g # other.g \/ c.a # other.a

\* fn approx_equal_field(value: i16, value2: i16, diff: i16), local to
\* Color::approx_equal
approx_equal_field(value, value2, diff) ==
    value - diff <= value2 /\ value2 <= value + diff

\* Color::approx_equal
approx_equal(c, other, diff, include_transparency) ==
    LET diff_adjusted == diff
        alpha_part == IF include_transparency
                      THEN approx_equal_field(c.a, other.a, diff_adjusted)
                      ELSE TRUE
    IN  /\ approx_equal_field(c.r, other.r, diff_adjusted)
        /\ approx_equal_field(c.r, other.r, diff_adjusted)
        /\ approx_equal_field(c.r, other.r, diff_adjusted)
        /\ alpha_part

(***************************************************************************)
(* Random sampling.  An Option<u8> is the empty sequence (None) or the     *)
(* one-element sequence of its value (Some).                               *)
(***************************************************************************)
None == <<>>
Some(v) == <<v>>

\* match_bounds with a one-sided pair taken for an absent one.
match_bounds_lenient(i, j) ==
    IF i # None /\ j # None THEN "Some, Some" ELSE "None, None"

\* match (i, j) of Color::randomise: the arm taken
match_bounds(i, j) ==
    CASE i # None /\ j # None -> "Some, Some"
      [] i = None /\ j = None -> "None, None"
      [] OTHER -> "_"

\* gen_range over val1..=val2, the end included.
gen_range_inclusive(val1, val2) == val1..val2

\* rand::thread_rng().gen_range(val1..val2): the values it can draw
gen_range(val1, val2) == val1..(val2 - 1)

\* The loop of Color::randomise from iteration `index` on: the results the
\* call can return, one for every value the generator can draw.
RECURSIVE randomise_loop(_, _, _, _, _)
randomise_loop(rgba_list, start, end, index, randomized_values) ==
    IF index = 4
    THEN {Ok(Color(randomized_values[1], randomized_values[2],
                   randomized_values[3], randomized_values[4]))}
    ELSE LET i == start[index + 1]
             j == end[index + 1]
             arm == match_bounds(i, j)
         IN  CASE arm = "Some, Some" ->
                      IF i[1] >= j[1]
                      THEN {Err("OutOfRange")}
                      ELSE UNION {randomise_loop(rgba_list, start, end,
                                      index + 1,
                                      [randomized_values
                                          EXCEPT ![index + 1] = v]) :
                                  v \in gen_range(i[1], j[1])}
               [] arm = "None, None" ->
                      randomise_loop(rgba_list, start, end, index + 1,
                          [randomized_values
                              EXCEPT ![index + 1] = rgba_list[index + 1]])
               [] OTHER -> {Err("InvalidArgument")}

\* Color::randomise: the results it can return
randomise(c, start, end) ==
    randomise_loop(<<c.r, c.g, c.b, c.a>>, start, end, 0, <<0, 0, 0, 0>>)

(***************************************************************************)
(* Indexed access.  A ColorAccessCode is Integer(u8) or String(text), the  *)
(* text being the sequence of its characters.                              *)
(***************************************************************************)
Integer(n) == [int |-> n]
String(s) == [str |-> s]
IsString(access_code) == "str" \in DOMAIN access_code

UpperCase == <<"A", "B", "C", "D", "E", "F", "G", "H", "I", "J", "K", "L", "M",
               "N", "O", "P", "Q", "R", "S", "T", "U", "V", "W", "X", "Y", "Z">>
LowerCase == <<"a", "b", "c", "d", "e", "f", "g", "h", "i", "j", "k", "l", "m",
               "n", "o", "p", "q", "r", "s", "t", "u", "v", "w", "x", "y", "z">>

\* str::to_lowercase
to_lowercase(s) ==
    [i \in 1..Len(s) |->
        IF \E k \in 1..26 : UpperCase[k] = s[i]
        THEN LowerCase[CHOOSE k \in 1..26 : UpperCase[k] = s[i]]
        ELSE s[i]]

\* The match arms of __getitem__ and __setitem__: the field an access code
\* selects, "none" where the `_` arm is taken.
string_arm(value) ==
    LET lowered == to_lowercase(value)
    IN  CASE lowered = <<"r", "e", "d">> \/ lowered = <<"r">> -> "r"
          [] lowered = <<"g", "r", "e", "e", "n">> \/ lowered = <<"g">> -> "g"
          [] lowered = <<"b", "l", "u", "e">> \/ lowered = <<"b">> -> "b"
          [] lowered = <<"a", "l", "p", "h", "a">> \/ lowered = <<"a">> -> "a"
          [] OTHER -> "none"

integer_arm(n) ==
    CASE n = 0 -> "r" [] n = 1 -> "g" [] n = 2 -> "b" [] n = 3 -> "a"
      [] OTHER -> "none"

\* Color::__getitem__
__getitem__(c, access_code) ==
    LET field == IF IsString(access_code) THEN string_arm(access_code.str)
                 ELSE integer_arm(access_code.int)
    IN  IF field = "none" THEN Err("IndexOutOfRange") ELSE Ok(c[field])

\* __setitem__ with the integer codes counted from 1.
setitem_one_based(c, access_code, new_value) ==
    LET field == IF IsString(access_code) THEN string_arm(access_code.str)
                 ELSE integer_arm(access_code.int - 1)
    IN  IF field = "none"
        THEN [self |-> c, res |-> Err("IndexOutOfRange")]
        ELSE [self |-> [c EXCEPT ![field] = new_value], res |-> Ok(<<>>)]

\* Color::__setitem__: the receiver after the call and what is returned
__setitem__(c, access_code, new_value) ==
    LET field == IF IsString(access_code) THEN string_arm(access_code.str)
                 ELSE integer_arm(access_code.int)
    IN  IF field = "none"
        THEN [self |-> c, res |-> Err("IndexOutOfRange")]
        ELSE [self |-> [c EXCEPT ![field] = new_value], res |-> Ok(<<>>)]

(***************************************************************************)
(* f32 arithmetic on the finite values the code computes with.  A value is *)
(* +-m * 2^e with m = 0 or 2^23 <= m < 2^24 (a normal f32 with its 24-bit  *)
(* significand); every operation rounds to nearest, ties to even, as the   *)
(* hardware does.  Products and quotients of significands are taken in     *)
(* limbs of 12 bits so that they stay within the integers.                 *)
(***************************************************************************)
F32(m, e) == [m |-> m, e |-> e, neg |-> FALSE]
F32Neg(m, e) == [m |-> m, e |-> e, neg |-> TRUE]
F32Zero == F32(0, 0)
F32One == F32(8388608, -23)

Pow2(k) == 2 ^ k

\* The number of bits of an integer 1 .. 2^31 - 1.
BitLen(n) == CHOOSE k \in 1..31 : n \div Pow2(k - 1) = 1

\* (n + s) * 2^e, with 0 <= n < 2^31 and 0 <= s < 1 (s > 0 iff sticky),
\* rounded to a 24-bit significand.  A value with n < 2^25 has no sticky part.
F32Round(n, e, sticky, neg) ==
    IF n = 0 THEN F32Zero
    ELSE LET k == BitLen(n) - 24
         IN  IF k <= 0 THEN [m |-> n * Pow2(-k), e |-> e + k, neg |-> neg]
             ELSE LET q == n \div Pow2(k)
                      r == n % Pow2(k)
                      half == Pow2(k - 1)
                      up == \/ r > half
                            \/ r = half /\ (sticky \/ q % 2 = 1)
                  IN  IF up /\ q + 1 = 16777216
                      THEN [m |-> 8388608, e |-> e + k + 1, neg |-> neg]
                      ELSE [m |-> IF up THEN q + 1 ELSE q, e |-> e + k,
                            neg |-> neg]

\* (n as f32) for an integer of at most 24 bits.
F32OfInt(n) == F32Round(IF n < 0 THEN -n ELSE n, 0, FALSE, n < 0)

\* -x
F32Negate(x) == IF x.m = 0 THEN x ELSE [x EXCEPT !.neg = ~x.neg]

\* x * y
F32Mul(x, y) ==
    IF x.m = 0 \/ y.m = 0 THEN F32Zero
    ELSE LET a1 == x.m \div 4096
             a0 == x.m % 4096
             b1 == y.m \div 4096
             b0 == y.m % 4096
             c1 == a1 * b0 + a0 * b1
             low == a0 * b0 + (c1 % 4096) * 4096
             high == a1 * b1 + (c1 \div 4096) + (low \div 16777216)
             lowlimb == low % 16777216
         IN  F32Round(high * 64 + (lowlimb \div 262144), x.e + y.e + 18,
                      lowlimb % 262144 # 0, x.neg # y.neg)

\* Long division: `steps` more bits of the quotient q with remainder r < d.
RECURSIVE LongDiv(_, _, _, _)
LongDiv(q, r, d, steps) ==
    IF steps = 0 THEN <<q, r>>
    ELSE IF 2 * r >= d THEN LongDiv(2 * q + 1, 2 * r - d, d, steps - 1)
    ELSE LongDiv(2 * q, 2 * r, d, steps - 1)

\* x / y for y # 0
F32Div(x, y) ==
    IF x.m = 0 THEN F32Zero
    ELSE LET qr == LongDiv(x.m \div y.m, x.m % y.m, y.m, 26)
         IN  F32Round(qr[1], x.e - y.e - 26, qr[2] # 0, x.neg # y.neg)

\* x < y among non-negative values
F32MagLess(x, y) ==
    IF x.m = 0 THEN y.m # 0
    ELSE IF y.m = 0 THEN FALSE
    ELSE x.e < y.e \/ (x.e = y.e /\ x.m < y.m)

\* x < y
F32Less(x, y) ==
    IF x.neg THEN ~y.neg \/ F32MagLess(y, x)
    ELSE ~y.neg /\ F32MagLess(x, y)

\* x + y: the operand of larger magnitude with six guard bits, the other one
\* shifted to its scale, the bits shifted out kept as a sticky bit.
F32Add(x, y) ==
    IF x.m = 0 THEN y
    ELSE IF y.m = 0 THEN x
    ELSE LET big == IF F32MagLess(x, y) THEN y ELSE x
             small == IF F32MagLess(x, y) THEN x ELSE y
             d == big.e - small.e
             B == big.m * 64
             S == IF d > 30 THEN 0 ELSE (small.m * 64) \div Pow2(d)
             sticky == d > 30 \/ (small.m * 64) % Pow2(d) # 0
         IN  IF x.neg = y.neg
             THEN F32Round(B + S, big.e - 6, sticky, big.neg)
             ELSE F32Round(IF sticky THEN B - S - 1 ELSE B - S, big.e - 6,
                           sticky, big.neg)

\* x - y
F32Sub(x, y) == F32Add(x, F32Negate(y))

\* x.floor(), as an integer, for |x| < 2^24
F32Floor(x) ==
    IF x.m = 0 THEN 0
    ELSE IF x.e >= 0 THEN (IF x.neg THEN -1 ELSE 1) * x.m * Pow2(x.e)
    ELSE LET q == IF -x.e > 30 THEN 0 ELSE x.m \div Pow2(-x.e)
             whole == -x.e <= 30 /\ x.m % Pow2(-x.e) = 0
         IN  IF ~x.neg THEN q ELSE IF whole THEN -q ELSE -q - 1

\* `x as u8` of an integer-valued f32: the cast saturates.
F32AsU8(n) == Clamp(n, 0, U8Max)

(***************************************************************************)
(* Interpolation.                                                          *)
(***************************************************************************)
\* utils::find_invalid_percentage_range(value, field_name): the value must
\* lie in [0, 1]
find_invalid_percentage_range(value) ==
    IF F32Less(value, F32Zero) \/ F32Less(F32One, value)
    THEN Err("InvalidRange")
    ELSE Ok(<<>>)

\* ((t_inverted * start as f32) + t * (end as f32)).floor() as u8
mlerp_channel(start, end, t) ==
    LET t_inverted == F32Sub(F32One, t)
    IN  F32AsU8(F32Floor(F32Add(F32Mul(t_inverted, F32OfInt(start)),
                                F32Mul(t, F32OfInt(end)))))

\* Color::mlerp
mlerp(start, end, t) ==
    IF ~find_invalid_percentage_range(t).ok
    THEN find_invalid_percentage_range(t)
    ELSE Ok(Color(mlerp_channel(start.r, end.r, t),
                  mlerp_channel(start.g, end.g, t),
                  mlerp_channel(start.b, end.b, t),
                  mlerp_channel(start.a, end.a, t)))

(***************************************************************************)
(* Adjustments.                                                            *)
(***************************************************************************)
\* Color::adjust_temperature: the receivers and results the call can leave.
\* red + adjusted_temp is at most 510 and stays in u16;
\* `self.b as u16 - adjusted_temp` below zero panics in a debug build, after
\* red was already written, and wraps in a release build.
adjust_temperature(c, temperature) ==
    IF temperature = 0 THEN {[self |-> c, res |-> Ok(<<>>)]}
    ELSE LET adjusted_temp ==
                 WrapU16(wrap_around_bigint(
                             IF temperature > 255 THEN 255
                             ELSE IF temperature < -255 THEN -255
                             ELSE temperature)[2])
             red == c.r + adjusted_temp
             blue == c.b - adjusted_temp
             r == AsU8(Clamp(WrapU16(red), 0, 255))
             b == AsU8(Clamp(WrapU16(blue), 0, 255))
         IN  IF InU16(blue)
             THEN {[self |-> [c EXCEPT !.r = r, !.b = b], res |-> Ok(<<>>)]}
             ELSE {[self |-> [c EXCEPT !.r = r], res |-> Panic],
                   [self |-> [c EXCEPT !.r = r, !.b = b], res |-> Ok(<<>>)]}

(***************************************************************************)
(* Constructors from other colour spaces.                                  *)
(***************************************************************************)
\* The f32 literals of from_xyz.
XMax == F32(12458000, -17)          \* 95.047
YMax == F32(13107200, -17)          \* 100.0
ZMax == F32(14271513, -17)          \* 108.883
Hundred == F32(13107200, -17)       \* 100.0
XyzMatrix ==
    <<<<F32(13592062, -22), F32Neg(12894968, -23), F32Neg(16730240, -25)>>,
      <<F32Neg(16255445, -24), F32(15735351, -23), F32(11140071, -28)>>,
      <<F32(14951855, -28), F32Neg(13690208, -26), F32(8866759, -23)>>>>
GammaThreshold == F32(13446684, -32)    \* 0.0031308
GammaSlope == F32(13547602, -20)        \* 12.92

\* utils::to_whole_rgb(r, g, b, a): each decimal component scaled by 255 to a
\* u8.
to_whole_channel(v) == F32AsU8(F32Floor(F32Mul(v, F32OfInt(U8Max))))
to_whole_rgb(r, g, b, a) ==
    Color(to_whole_channel(r), to_whole_channel(g), to_whole_channel(b),
          to_whole_channel(a))

\* x * m[1] + y * m[2] + z * m[3]
xyz_linear(x, y, z, m) ==
    F32Add(F32Add(F32Mul(x, m[1]), F32Mul(y, m[2])), F32Mul(z, m[3]))

\* if v > 0.0031308 { 1.055 * v.powf(0.41666667) - 0.055 } else { 12.92 * v }:
\* the values the encoding can give.  powf is not computed; its branch gives a
\* value of at least 12.92 * 0.0031308, and of at least 1 from v >= 1 on, and
\* the two ends of that range stand for it.
xyz_gamma(v) ==
    IF F32Less(GammaThreshold, v)
    THEN IF F32Less(v, F32One)
         THEN {F32Mul(GammaSlope, GammaThreshold), F32One}
         ELSE {F32One}
    ELSE {F32Mul(GammaSlope, v)}

\* Color::from_xyz: the results it can return
from_xyz(x, y, z, transparency) ==
    IF F32Less(x, F32Zero) \/ F32Less(XMax, x)
    THEN {Err("X must be between 0 and 95")}
    ELSE IF F32Less(y, F32Zero) \/ F32Less(YMax, y)
    THEN {Err("Y must be between 0.0 and 100.0")}
    ELSE IF F32Less(z, F32Zero) /\ F32Less(ZMax, z)
    THEN {Err("Z must be between 0.0 and 108.883")}
    ELSE IF ~find_invalid_percentage_range(transparency).ok
    THEN {find_invalid_percentage_range(transparency)}
    ELSE LET x1 == F32Div(x, Hundred)
             y1 == F32Div(y, Hundred)
             z1 == F32Div(z, Hundred)
         IN  {Ok(to_whole_rgb(r, g, b, transparency)) :
                  r \in xyz_gamma(xyz_linear(x1, y1, z1, XyzMatrix[1])),
                  g \in xyz_gamma(xyz_linear(x1, y1, z1, XyzMatrix[2])),
                  b \in xyz_gamma(xyz_linear(x1, y1, z1, XyzMatrix[3]))}

\* (h as f32).rem_euclid(360.0) / 360.0: a whole number of degrees 0..359,
\* exact in f32, divided by 360.
hsv_adjusted_h(h) == F32Div(F32OfInt(h % 360), F32OfInt(360))

\* floored_h = adjusted_h.floor()
hsv_floored_h(h) == F32Floor(hsv_adjusted_h(h))

\* diff = adjusted_h - floored_h
hsv_diff(h) == F32Sub(hsv_adjusted_h(h), F32OfInt(hsv_floored_h(h)))

\* index = (floored_h % 6.0).floor() as usize
hsv_index(h) == hsv_floored_h(h) % 6

\* The candidate (r, g, b) triples of from_hsv, by index 0..5.
hsv_candidates(diff, s, v) ==
    LET a == F32Mul(v, F32Sub(F32One, s))
        b == F32Mul(v, F32Sub(F32One, F32Mul(diff, s)))
        c == F32Mul(v, F32Sub(F32One, F32Mul(F32Sub(F32One, diff), s)))
    IN  <<<<v, c, a>>, <<b, v, a>>, <<a, v, c>>,
          <<a, b, v>>, <<c, a, v>>, <<v, a, b>>>>

\* Color::from_hsv
from_hsv(h, s, v, transparency) ==
    IF ~find_invalid_percentage_range(s).ok
    THEN find_invalid_percentage_range(s)
    ELSE IF ~find_invalid_percentage_range(v).ok
    THEN find_invalid_percentage_range(v)
    ELSE IF ~find_invalid_percentage_range(transparency).ok
    THEN find_invalid_percentage_range(transparency)
    ELSE LET rgb == hsv_candidates(hsv_diff(h), s, v)[hsv_index(h) + 1]
         IN  Ok(to_whole_rgb(rgb[1], rgb[2], rgb[3], transparency))

\* utils::color_to_hsv(Color): (hue in whole degrees, saturation, value) of
\* the decimal channels: value is the largest channel, saturation the spread
\* over the largest channel (0 for black), hue the position of the largest
\* channel on the colour wheel.
color_to_hsv(c) ==
    LET dec(x) == F32Div(F32OfInt(x), F32OfInt(U8Max))
        hi == Max2(c.r, Max2(c.g, c.b))
        lo == Min2(c.r, Min2(c.g, c.b))
        delta == F32Sub(dec(hi), dec(lo))
        turn(x, y, base) ==
            F32Add(F32Div(F32Sub(dec(x), dec(y)), delta), F32OfInt(base))
        sixth == IF hi = lo THEN F32Zero
                 ELSE IF hi = c.r THEN turn(c.g, c.b, 0)
                 ELSE IF hi = c.g THEN turn(c.b, c.r, 2)
                 ELSE turn(c.r, c.g, 4)
    IN  <<F32Floor(F32Mul(F32OfInt(60), sixth)) % 360,
          IF hi = 0 THEN F32Zero ELSE F32Div(delta, dec(hi)),
          dec(hi)>>

\* Color::saturate; unwrap() of a failed from_hsv panics.
saturate(c, factor) ==
    IF factor = F32Zero THEN Ok(c)
    ELSE LET hsv == color_to_hsv(c)
             made == from_hsv(hsv[1], F32Mul(hsv[2], F32Add(factor, F32One)),
                              hsv[3],
                              F32Div(F32OfInt(c.a), F32OfInt(U8Max)))
         IN  IF made.ok THEN made ELSE Panic

(***************************************************************************)
(* Inputs.                                                                 *)
(***************************************************************************)
\* Channel values of the receivers: the two extremes and some mid values.
SelfVals == {0, U8Max} \cup {10 * k : k \in 1..NumMid}
\* Channel values of the second operand of the binary operations.
OtherVals == {3, 250, U8Max}

\* The scalars handed to mul and div.
Scalars == {Fin(-1, 1), Fin(0, 1), Fin(1, 2), Fin(1, 1), Fin(3, 2), Fin(2, 1),
            NaN, PosInf}

\* Channel values of the Color compared with by approx_equal: at distance 0,
\* 1 and 2 of the receiver's 0.
NearVals == {0, 1, 2}

\* The bounds handed to randomise, per channel, and the receivers it is
\* called on.
Bounds == {None} \cup {Some(v) : v \in 0..MaxBound}
RandomiseReceivers == {Color(100, 101, 102, 103), Color(255, 0, 254, 1)}

\* Characters the generated digit strings are made of: a hexadecimal digit and
\* a character that is none.
HexAlphabet == {"F", "g"}

RECURSIVE StringsOfLen(_)
StringsOfLen(n) ==
    IF n = 0 THEN {<<>>}
    ELSE {<<ch>> \o s : ch \in HexAlphabet, s \in StringsOfLen(n - 1)}

\* The strings handed to from_hex: every string over HexAlphabet of up to
\* MaxHexLen characters and some strings of other digits, each with and
\* without a leading '#'.
HexBodies == UNION {StringsOfLen(n) : n \in 0..MaxHexLen}
             \cup { <<"A", "B", "C">>,
                    <<"F", "F", "0", "0", "0", "0">>,
                    <<"0", "0", "0", "0", "0", "0", "0", "0">>,
                    <<"1", "2", "a", "B", "c", "D", "0", "9">>,
                    <<"1", "2", "a", "B", "c", "D", "0">> }
HexInputs == HexBodies \cup {<<"#">> \o s : s \in HexBodies}

\* The access codes handed to __getitem__ and __setitem__: the integers up to
\* MaxCode, every channel name in some spelling, and texts that name none.
AccessCodes ==
    {Integer(n) : n \in 0..MaxCode} \cup {Integer(U8Max)} \cup
    {String(s) : s \in { <<"r", "e", "d">>, <<"R">>, <<"r">>,
                         <<"G", "r", "e", "e", "n">>, <<"g">>,
                         <<"B", "L", "U", "E">>, <<"b">>,
                         <<"a", "l", "p", "h", "A">>, <<"A">>, <<"a">>,
                         <<>>, <<"r", "e", "d", "s">>, <<"x">>, <<"0">> }}

\* The interpolation parameters handed to mlerp, as the f32 nearest to the
\* literal: 0, 1, 0.5, 0.7, 0.1, 0.003 and, outside [0, 1], 1.5 and -0.5.
Percentages ==
    {F32Zero, F32One, F32(8388608, -24), F32(11744051, -24),
     F32(13421773, -27), F32(12884902, -32),
     F32(12582912, -23), F32Neg(8388608, -24)}

\* The end Colors handed to mlerp besides the start Color itself.
EndColors == Colors({0, U8Max})

\* The temperatures handed to adjust_temperature: zero, both signs, the two
\* clamping limits and a value beyond each.
Temperatures == {-300, -255, -10, 0, 10, 255, 300}

\* The components handed to from_xyz: below the domain, its two ends, above.
XInputs == {F32Neg(8388608, -23), F32Zero, XMax, F32(12582912, -17)}
YInputs == {F32Neg(8388608, -23), F32Zero, YMax, F32(13238272, -17)}
ZInputs == {F32Neg(8388608, -23), F32Zero, ZMax, F32(13107200, -16)}

\* Transparencies: -0.5, 0, 1 and 1.5.
Transparencies ==
    {F32Neg(8388608, -24), F32Zero, F32One, F32(12582912, -23)}

\* The hues handed to from_hsv, in degrees: one or two per sector, and two
\* that normalisation brings back into 0..359.
Hues == {-120, 0, 30, 60, 120, 180, 240, 300, 420}

\* Saturations and values: -0.5, 0, 0.5, 1 and 1.5.
UnitInputs == Transparencies \cup {F32(8388608, -24)}

\* The factors handed to saturate: -2, -1, -0.5, 0, 0.5 and 1.
Factors ==
    {F32Neg(8388608, -22), F32Neg(8388608, -23), F32Neg(8388608, -24),
     F32Zero, F32(8388608, -24), F32One}

(***************************************************************************)
(* Actions: one per method.  A method is called on the receiver when no    *)
(* returned value is pending (op = "new"); Forget is the caller dropping   *)
(* the returned value, after which the next call can be made.              *)
(***************************************************************************)
Forget ==
    /\ op # "new"
    /\ op' = "new"
    /\ args' = NoArgs
    /\ res' = Ok(self)
    /\ UNCHANGED self

FromHex ==
    /\ op = "new"
    /\ \E hex_string \in HexInputs \cup {to_hex(self, TRUE), to_hex(self, FALSE)} :
        /\ op' = "from_hex"
        /\ args' = [hex_string |-> hex_string]
        /\ res' = from_hex(hex_string)
        /\ UNCHANGED self

ToHex ==
    /\ op = "new"
    /\ \E include_transparency \in BOOLEAN :
        /\ op' = "to_hex"
        /\ args' = [include_transparency |-> include_transparency]
        /\ res' = Ok(to_hex(self, include_transparency))
        /\ UNCHANGED self

Shift ==
    /\ op = "new"
    /\ \E places \in -MaxPlaces..MaxPlaces :
        /\ op' = "shift"
        /\ args' = [places |-> places]
        /\ res' = Ok(shift(self, places))
        /\ UNCHANGED self

Rshift ==
    /\ op = "new"
    /\ \E places \in -MaxPlaces..MaxPlaces :
        /\ op' = "__rshift__"
        /\ args' = [places |-> places]
        /\ res' = Ok(__rshift__(self, places))
        /\ UNCHANGED self

Lshift ==
    /\ op = "new"
    /\ \E places \in -MaxPlaces..MaxPlaces :
        /\ op' = "__lshift__"
        /\ args' = [places |-> places]
        /\ res' = Ok(__lshift__(self, places))
        /\ UNCHANGED self

Add ==
    /\ op = "new"
    /\ \E other \in Colors(OtherVals), include_transparency \in BOOLEAN :
        /\ op' = "add"
        /\ args' = [other |-> other,
                    include_transparency |-> include_transparency]
        /\ res' \in Returned(add(self, other, include_transparency))
        /\ UNCHANGED self

Sub ==
    /\ op = "new"
    /\ \E other \in Colors(OtherVals), include_transparency \in BOOLEAN :
        /\ op' = "sub"
        /\ args' = [other |-> other,
                    include_transparency |-> include_transparency]
        /\ res' \in Returned(sub(self, other, include_transparency))
        /\ UNCHANGED self

Mul ==
    /\ op = "new"
    /\ \E scalar \in Scalars, include_transparency \in BOOLEAN :
        /\ op' = "mul"
        /\ args' = [scalar |-> scalar,
                    include_transparency |-> include_transparency]
        /\ res' = Ok(mul(self, scalar, include_transparency))
        /\ UNCHANGED self

Div ==
    /\ op = "new"
    /\ \E scalar \in Scalars, include_transparency \in BOOLEAN :
        /\ op' = "div"
        /\ args' = [scalar |-> scalar,
                    include_transparency |-> include_transparency]
        /\ res' = div(self, scalar, include_transparency)
        /\ UNCHANGED self

Tensor ==
    /\ op = "new"
    /\ \E other \in Colors(OtherVals), include_transparency \in BOOLEAN :
        /\ op' = "tensor"
        /\ args' = [other |-> other,
                    include_transparency |-> include_transparency]
        /\ res' \in Returned(tensor(self, other, include_transparency))
        /\ UNCHANGED self

BaseSqrt ==
    /\ op = "new"
    /\ \E base \in 0..MaxBase, include_transparency \in BOOLEAN :
        /\ op' = "base_sqrt"
        /\ args' = [base |-> base,
                    include_transparency |-> include_transparency]
        /\ res' \in base_sqrt(self, base, include_transparency)
        /\ UNCHANGED self

Max ==
    /\ op = "new"
    /\ \E other \in Colors(OtherVals), include_transparency \in BOOLEAN :
        /\ op' = "max"
        /\ args' = [other |-> other,
                    include_transparency |-> include_transparency]
        /\ res' = Ok(max(self, other, include_transparency))
        /\ UNCHANGED self

Minimum ==
    /\ op = "new"
    /\ \E other \in Colors(OtherVals), include_transparency \in BOOLEAN :
        /\ op' = "min"
        /\ args' = [other |-> other,
                    include_transparency |-> include_transparency]
        /\ res' = Ok(min(self, other, include_transparency))
        /\ UNCHANGED self

Inverse ==
    /\ op = "new"
    /\ \E include_transparency \in BOOLEAN :
        /\ op' = "inverse"
        /\ args' = [include_transparency |-> include_transparency]
        /\ res' = Ok(inverse(self, include_transparency))
        /\ UNCHANGED self

Eq ==
    /\ op = "new"
    /\ \E other \in Colors(SelfVals) :
        /\ op' = "__eq__"
        /\ args' = [other |-> other]
        /\ res' = Ok(__eq__(self, other))
        /\ UNCHANGED self

Ne ==
    /\ op = "new"
    /\ \E other \in Colors(SelfVals) :
        /\ op' = "__ne__"
        /\ args' = [other |-> other]
        /\ res' = Ok(__ne__(self, other))
        /\ UNCHANGED self

ApproxEqual ==
    /\ op = "new"
    /\ \E other \in Colors(NearVals), diff \in 0..MaxDiff,
          include_transparency \in BOOLEAN :
        /\ op' = "approx_equal"
        /\ args' = [other |-> other, diff |-> diff,
                    include_transparency |-> include_transparency]
        /\ res' = Ok(approx_equal(self, other, diff, include_transparency))
        /\ UNCHANGED self

Randomise ==
    /\ op = "new"
    /\ \E start \in [1..4 -> Bounds], end \in [1..4 -> Bounds] :
        /\ op' = "randomise"
        /\ args' = [start |-> start, end |-> end]
        /\ res' \in randomise(self, start, end)
        /\ UNCHANGED self

GetItem ==
    /\ op = "new"
    /\ \E access_code \in AccessCodes :
        /\ op' = "__getitem__"
        /\ args' = [access_code |-> access_code]
        /\ res' = __getitem__(self, access_code)
        /\ UNCHANGED self

SetItem ==
    /\ op = "new"
    /\ \E access_code \in AccessCodes, new_value \in SelfVals :
        LET done == __setitem__(self, access_code, new_value)
        IN  /\ op' = "__setitem__"
            /\ args' = [access_code |-> access_code, new_value |-> new_value]
            /\ res' = done.res
            /\ self' = done.self

Mlerp ==
    /\ op = "new"
    /\ \E end \in EndColors \cup {self}, t \in Percentages :
        /\ op' = "mlerp"
        /\ args' = [start |-> self, end |-> end, t |-> t]
        /\ res' = mlerp(self, end, t)
        /\ UNCHANGED self

AdjustTemperature ==
    /\ op = "new"
    /\ \E temperature \in Temperatures :
        \E done \in adjust_temperature(self, temperature) :
            /\ op' = "adjust_temperature"
            /\ args' = [temperature |-> temperature]
            /\ res' = done.res
            /\ self' = done.self

FromXyz ==
    /\ op = "new"
    /\ \E x \in XInputs, y \in YInputs, z \in ZInputs,
          transparency \in Transparencies :
        /\ op' = "from_xyz"
        /\ args' = [x |-> x, y |-> y, z |-> z, transparency |-> transparency]
        /\ res' \in from_xyz(x, y, z, transparency)
        /\ UNCHANGED self

FromHsv ==
    /\ op = "new"
    /\ \E h \in Hues, s \in UnitInputs, v \in UnitInputs,
          transparency \in Transparencies :
        /\ op' = "from_hsv"
        /\ args' = [h |-> h, s |-> s, v |-> v, transparency |-> transparency]
        /\ res' = from_hsv(h, s, v, transparency)
        /\ UNCHANGED self

Saturate ==
    /\ op = "new"
    /\ \E factor \in Factors :
        /\ op' = "saturate"
        /\ args' = [factor |-> factor]
        /\ res' = saturate(self, factor)
        /\ UNCHANGED self

(***************************************************************************)
(* Specifications.  Init is a freshly constructed Color.                   *)
(***************************************************************************)
Init ==
    /\ self \in Colors(SelfVals)
    /\ op = "new"
    /\ args = NoArgs
    /\ res = Ok(self)

NextHex == FromHex \/ ToHex \/ Forget
SpecHex == Init /\ [][NextHex]_vars

NextShift == Shift \/ Rshift \/ Lshift \/ Forget
SpecShift == Init /\ [][NextShift]_vars

NextAlgebra ==
    \/ Add \/ Sub \/ Mul \/ Div \/ Tensor \/ BaseSqrt \/ Max \/ Minimum
    \/ Inverse \/ Forget
SpecAlgebra == Init /\ [][NextAlgebra]_vars

NextCompare == Eq \/ Ne \/ ApproxEqual \/ Forget
SpecCompare == Init /\ [][NextCompare]_vars

InitRandomise ==
    /\ self \in RandomiseReceivers
    /\ op = "new"
    /\ args = NoArgs
    /\ res = Ok(self)

NextRandomise == Randomise \/ Forget
SpecRandomise == InitRandomise /\ [][NextRandomise]_vars

NextAccess == GetItem \/ SetItem \/ Forget
SpecAccess == Init /\ [][NextAccess]_vars

NextInterpolate == Mlerp \/ Forget
SpecInterpolate == Init /\ [][NextInterpolate]_vars

NextTemperature == AdjustTemperature \/ Forget
SpecTemperature == Init /\ [][NextTemperature]_vars

NextConstruct == FromXyz \/ FromHsv \/ Forget
SpecConstruct == Init /\ [][NextConstruct]_vars

NextSaturate == Saturate \/ Forget
SpecSaturate == Init /\ [][NextSaturate]_vars

(***************************************************************************)
(* Properties.                                                             *)
(***************************************************************************)
\* The channel of a Color at a ring index: 0 = red, 1 = green, 2 = blue,
\* 3 = alpha.
ChannelAt(c, i) == <<c.r, c.g, c.b, c.a>>[i + 1]

\* C1: from_hex accepts an optional '#' followed by exactly 6 hexadecimal
\* digits (alpha 255) or exactly 8 (explicit alpha) and returns the Color the
\* digit groups encode; a string of any other length after the optional '#'
\* fails with InvalidLength.
C1_FromHexContract ==
    op = "from_hex" =>
        LET s == args.hex_string
            body == IF Len(s) > 0 /\ s[1] = "#" THEN Tail(s) ELSE s
            group(k) == 16 * HexVal(body[2 * k - 1]) + HexVal(body[2 * k])
        IN  IF Len(body) \notin {6, 8}
            THEN res = Err("InvalidLength")
            ELSE (\A i \in 1..Len(body) : IsHexDigit(body[i])) =>
                     res = Ok(Color(group(1), group(2), group(3),
                                    IF Len(body) = 8 THEN group(4) ELSE 255))

\* C2: for every Color c, from_hex(to_hex(c, include_transparency = true))
\* succeeds and returns a Color with the red, green, blue and alpha of c.
C2_HexRoundTrip ==
    (op = "from_hex" /\ args.hex_string = to_hex(self, TRUE)) => res = Ok(self)

\* C3: c.__rshift__(n).__lshift__(n) returns c for every Color c and every
\* integer n; in particular shift(-1) undoes shift(1).
C3_ShiftUndone ==
    op = "__rshift__" => __lshift__(res.val, args.places) = self

\* C4: shift(places) returns the Color whose channel at ring index i holds the
\* value the receiver had at ring index (i - places) mod 4, the remainder
\* being the non-negative one.
C4_ShiftRotates ==
    op = "shift" =>
        \A i \in 0..3 :
            ChannelAt(res.val, i) = ChannelAt(self, (i - args.places) % 4)

\* The channels an operation computes: red, green and blue, and alpha when
\* include_transparency is set.
Computed(include_transparency) ==
    IF include_transparency THEN {"r", "g", "b", "a"} ELSE {"r", "g", "b"}

\* C5: the red, green and blue channels of add are min(x + y, 255), of sub
\* max(x - y, 0) and of tensor min(x * y, 255), and alpha too when
\* include_transparency is set; every channel of the result lies in 0..255 and
\* no intermediate value leaves its integer type.
C5_SaturatingArithmetic ==
    op \in {"add", "sub", "tensor"} =>
        /\ res.ok
        /\ \A ch \in {"r", "g", "b", "a"} : res.val[ch] \in 0..255
        /\ \A ch \in Computed(args.include_transparency) :
               LET x == self[ch]
                   y == args.other[ch]
               IN  res.val[ch] = CASE op = "add" -> Min2(x + y, 255)
                                   [] op = "sub" -> Max2(x - y, 0)
                                   [] op = "tensor" -> Min2(x * y, 255)

\* C5 at an extreme: 255 * 255 saturates to 255 while 10 * 3 is 30.
C5_Witness ==
    /\ op = "tensor"
    /\ args.include_transparency
    /\ self.r = 255 /\ args.other.r = 255
    /\ self.a = 10 /\ args.other.a = 3
    /\ res = Ok([res.val EXCEPT !.r = 255, !.a = 30])

\* C6: with include_transparency = false a successful add, sub, mul, div,
\* tensor, base_sqrt, max, min or inverse returns the receiver's alpha; mul
\* by a scalar <= 0 returns red = green = blue = 0 and alpha 0 only when
\* include_transparency is set.
C6_AlphaPassedThrough ==
    /\ ( /\ op \in {"add", "sub", "mul", "div", "tensor", "base_sqrt",
                    "max", "min", "inverse"}
         /\ ~args.include_transparency
         /\ res.ok )
       => res.val.a = self.a
    /\ ( /\ op = "mul"
         /\ args.scalar.kind = "fin"
         /\ args.scalar.n <= 0 )
       => res = Ok(Color(0, 0, 0,
                         IF args.include_transparency THEN 0 ELSE self.a))

\* C6 on Color(10,10,10,10).add(Color(250,250,250,250), false).
C6_Witness ==
    /\ op = "add"
    /\ self = Color(10, 10, 10, 10)
    /\ args.other = Color(250, 250, 250, 250)
    /\ ~args.include_transparency
    /\ res = Ok(Color(255, 255, 255, 10))

SameRGB(c, d) == c.r = d.r /\ c.g = d.g /\ c.b = d.b

\* C7, as stated: == and != compare red, green and blue only, so two Colors
\* that differ in alpha alone are equal.
C7_EqIgnoresAlpha ==
    /\ op = "__eq__" => res.val = SameRGB(self, args.other)
    /\ op = "__ne__" => res.val = ~SameRGB(self, args.other)

\* C7, amended: == holds exactly when all four channels agree, so two Colors
\* that differ in alpha alone are unequal, and != is the negation of ==.
C7_EqAllChannels ==
    /\ op = "__eq__" =>
           res.val = (SameRGB(self, args.other) /\ self.a = args.other.a)
    /\ op = "__ne__" => res.val = ~__eq__(self, args.other)

\* C7 on two Colors that differ in alpha alone: == answers false.
C7_Witness ==
    /\ op = "__eq__"
    /\ SameRGB(self, args.other)
    /\ self.a # args.other.a
    /\ res = Ok(FALSE)

Dist(x, y) == IF x >= y THEN x - y ELSE y - x

\* C8: approx_equal is true exactly when red, green and blue each differ by
\* at most the tolerance, and alpha too when include_transparency is set.
C8_ApproxEqualAllChannels ==
    op = "approx_equal" =>
        res.val = (\A ch \in Computed(args.include_transparency) :
                       Dist(self[ch], args.other[ch]) <= args.diff)

\* Whether channel k of a randomise call has both bounds, none, or one.
BothPresent(k) == args.start[k] # None /\ args.end[k] # None
BothAbsent(k) == args.start[k] = None /\ args.end[k] = None
Offending(k) ==
    \/ BothPresent(k) /\ args.start[k][1] >= args.end[k][1]
    \/ ~BothPresent(k) /\ ~BothAbsent(k)

\* C9: randomise fails with OutOfRange when a channel has both bounds with
\* start >= end and with InvalidArgument when a channel has one bound only;
\* the first such channel in the order red, green, blue, alpha decides, and
\* no Color is returned.
C9_RandomiseRejects ==
    (op = "randomise" /\ \E k \in 1..4 : Offending(k)) =>
        LET first == CHOOSE k \in 1..4 :
                         Offending(k) /\ \A m \in 1..(k - 1) : ~Offending(m)
        IN  res = Err(IF BothPresent(first) THEN "OutOfRange"
                      ELSE "InvalidArgument")

\* C9 where red has one bound only and green has start = end: red decides.
C9_Witness ==
    /\ op = "randomise"
    /\ args.start[1] = None /\ args.end[1] = Some(2)
    /\ args.start[2] = Some(1) /\ args.end[2] = Some(1)
    /\ res = Err("InvalidArgument")

\* C10: when randomise succeeds, a channel with both bounds holds a value v
\* with start <= v < end (so never 255), a channel with no bound holds the
\* receiver's value, and the call leaves the receiver as it was.
C10_RandomiseSamples ==
    /\ [](( op = "randomise" /\ res.ok ) =>
            \A k \in 1..4 :
                LET v == ChannelAt(res.val, k - 1)
                IN  /\ BothPresent(k) =>
                           /\ args.start[k][1] <= v
                           /\ v < args.end[k][1]
                           /\ v # 255
                    /\ BothAbsent(k) => v = ChannelAt(self, k - 1))
    /\ [][op' = "randomise" => self' = self]_vars

\* C10 where red is drawn from [0, 2) and is 1, and green has no bound.
C10_Witness ==
    /\ op = "randomise"
    /\ args.start[1] = Some(0) /\ args.end[1] = Some(2)
    /\ BothAbsent(2)
    /\ res.ok
    /\ res.val.r = 1
    /\ res.val.g = self.g

\* The channel a code is meant to select: 0..3 or a channel name in any case;
\* "none" for every other code.
Selected(access_code) ==
    IF IsString(access_code)
    THEN LET s == to_lowercase(access_code.str)
         IN  CASE s \in {<<"r", "e", "d">>, <<"r">>} -> "r"
               [] s \in {<<"g", "r", "e", "e", "n">>, <<"g">>} -> "g"
               [] s \in {<<"b", "l", "u", "e">>, <<"b">>} -> "b"
               [] s \in {<<"a", "l", "p", "h", "a">>, <<"a">>} -> "a"
               [] OTHER -> "none"
    ELSE IF access_code.int \in 0..3
         THEN <<"r", "g", "b", "a">>[access_code.int + 1]
         ELSE "none"

\* C11: __setitem__ with a code 0..3 or a channel name in any case writes the
\* new value to that channel and leaves the other three as they were, and
\* __getitem__ with any code naming a channel returns the value that channel
\* holds, i.e. the last one written to it; with any other code both fail with
\* IndexOutOfRange and the Color is unchanged.
C11_IndexedAccess ==
    /\ [][op' = "__setitem__" =>
            LET ch == Selected(args'.access_code)
            IN  IF ch = "none"
                THEN res' = Err("IndexOutOfRange") /\ self' = self
                ELSE /\ res'.ok
                     /\ self' = [self EXCEPT ![ch] = args'.new_value]
                     /\ \A code \in AccessCodes :
                            Selected(code) = ch =>
                                __getitem__(self', code)
                                    = Ok(args'.new_value)]_vars
    /\ [][op' = "__getitem__" =>
            LET ch == Selected(args'.access_code)
            IN  /\ self' = self
                /\ res' = IF ch = "none" THEN Err("IndexOutOfRange")
                          ELSE Ok(self[ch])]_vars

\* C11 after alpha was set by name in mixed case on a receiver with another
\* alpha: the other channels kept their values.
C11_Witness ==
    /\ op = "__setitem__"
    /\ IsString(args.access_code)
    /\ args.access_code.str = <<"a", "l", "p", "h", "A">>
    /\ args.new_value = 10
    /\ res.ok
    /\ self = Color(255, 0, 255, 10)

\* floor((1 - t) * start + t * end) over the reals, for 0 <= t <= 1 given as
\* t.m * 2^t.e: start + floor(t.m * (end - start) / 2^-t.e), the product taken
\* in two limbs of 12 bits.
ExactLerp(start, end, t) ==
    LET d == end - start
        whole == (t.m \div 4096) * d + (((t.m % 4096) * d) \div 4096)
    IN  IF t.m = 0 THEN start
        ELSE IF -t.e - 12 > 30 THEN (IF d < 0 THEN start - 1 ELSE start)
        ELSE start + (whole \div Pow2(-t.e - 12))

ValidPercentage(t) == ~F32Less(t, F32Zero) /\ ~F32Less(F32One, t)

\* C12: for t in [0, 1] mlerp returns, on every channel, floor((1 - t) * start
\* + t * end), a value between the two endpoint channels; so mlerp(a, b, 0) is
\* a, mlerp(a, b, 1) is b and mlerp(c, c, t) is c.  For t outside [0, 1] it
\* fails.
C12_Mlerp ==
    op = "mlerp" =>
        IF ValidPercentage(args.t)
        THEN /\ res.ok
             /\ \A ch \in {"r", "g", "b", "a"} :
                   /\ res.val[ch] = ExactLerp(args.start[ch], args.end[ch],
                                              args.t)
                   /\ res.val[ch] >= Min2(args.start[ch], args.end[ch])
                   /\ res.val[ch] <= Max2(args.start[ch], args.end[ch])
             /\ args.t = F32Zero => res.val = args.start
             /\ args.t = F32One => res.val = args.end
             /\ args.start = args.end => res.val = args.start
        ELSE ~res.ok

\* C13: inverse maps red, green and blue to 255 - c, and alpha too exactly
\* when include_transparency is set; inverse applied to its own result with
\* the same flag gives the receiver back, alpha included.
C13_InverseInvolution ==
    op = "inverse" =>
        /\ res.ok
        /\ \A ch \in {"r", "g", "b"} : res.val[ch] = U8Max - self[ch]
        /\ res.val.a = IF args.include_transparency THEN U8Max - self.a
                       ELSE self.a
        /\ inverse(res.val, args.include_transparency) = self

C13_Witness ==
    /\ op = "inverse"
    /\ ~args.include_transparency
    /\ self = Color(10, 0, 255, 10)
    /\ res = Ok(Color(245, 255, 0, 10))
    /\ inverse(res.val, FALSE) = self

\* C14: adjust_temperature(delta) clamps delta to d in -255..255, sets red to
\* clamp(red + d, 0, 255) and blue to clamp(blue - d, 0, 255) with the signed
\* d, leaves green and alpha unchanged and never panics; with delta = 0 the
\* receiver is unchanged.
C14_AdjustTemperature ==
    [][op' = "adjust_temperature" =>
          LET d == Clamp(args'.temperature, -255, 255)
          IN  /\ res'.ok
              /\ self' = [self EXCEPT !.r = Clamp(self.r + d, 0, 255),
                                      !.b = Clamp(self.b - d, 0, 255)]]_vars

\* Whether x lies outside [0, hi].
Outside(x, hi) == F32Less(x, F32Zero) \/ F32Less(hi, x)

\* C15: from_xyz fails when X is outside [0, 95.047], when Y is outside
\* [0, 100], when Z is outside [0, 108.883] or when transparency is outside
\* [0, 1], with the error of the first component that is out of range.
C15_FromXyzRejects ==
    op = "from_xyz" =>
        LET xOut == Outside(args.x, XMax)
            yOut == Outside(args.y, YMax)
            zOut == Outside(args.z, ZMax)
            tOut == Outside(args.transparency, F32One)
        IN  /\ res.ok = ~(xOut \/ yOut \/ zOut \/ tOut)
            /\ xOut => res = Err("X must be between 0 and 95")
            /\ ~xOut /\ yOut => res = Err("Y must be between 0.0 and 100.0")
            /\ ~xOut /\ ~yOut /\ zOut
                   => res = Err("Z must be between 0.0 and 108.883")
            /\ ~xOut /\ ~yOut /\ ~zOut /\ tOut => res = Err("InvalidRange")

\* The sector of a hue normalised to 0..359, and the position inside it.
Sector(h) == ((h % 360) \div 60) % 6
SectorPosition(h) ==
    F32Sub(F32Div(F32OfInt(h % 360), F32OfInt(60)), F32OfInt(Sector(h)))

\* C16: from_hsv selects the candidate triple of index floor(hue / 60) mod 6
\* of the hue normalised to [0, 360), with hue / 60 - floor(hue / 60) as the
\* position inside the sector; hue 120 with s = v = 1 gives a pure green and
\* hue 240 a pure blue.
C16_FromHsvSectors ==
    (op = "from_hsv" /\ res.ok) =>
        LET rgb == hsv_candidates(SectorPosition(args.h), args.s,
                                  args.v)[Sector(args.h) + 1]
        IN  /\ hsv_index(args.h) = Sector(args.h)
            /\ res.val = to_whole_rgb(rgb[1], rgb[2], rgb[3],
                                      args.transparency)
            /\ (args.s = F32One /\ args.v = F32One /\ args.h = 120)
                   => (res.val.r = 0 /\ res.val.g = U8Max /\ res.val.b = 0)
            /\ (args.s = F32One /\ args.v = F32One /\ args.h = 240)
                   => (res.val.r = 0 /\ res.val.g = 0 /\ res.val.b = U8Max)

\* C17: saturate returns a Color for every receiver and every factor, and the
\* receiver itself for factor = 0.
C17_SaturateTotal ==
    op = "saturate" =>
        /\ res.ok
        /\ args.factor = F32Zero => res.val = self

=============================================================================
